---- MODULE Spec2Model ----
(***************************************************************************)
(* Model of the two developer utilities under Models/:                     *)
(*   conversion_script.py  (the Converter, convert_tf_checkpoint_to_coreml)*)
(*   inspect_model.py      (the Inspector, inspect_checkpoint_model and    *)
(*                          its __main__ block)                            *)
(* Each script is a single linear procedure.  Every call into TensorFlow   *)
(* or coremltools is one step that either returns or raises; what the      *)
(* scripts themselves compute (name stripping, the input list, the         *)
(* listings, the control flow around the calls) is modelled as written.    *)
(***************************************************************************)
EXTENDS Integers, Sequences, FiniteSets, TLC

\* ------------------------------------------------------------------ bounds
MaxOutputs == 2      \* length of output_tensor_names
MaxInputs == 2       \* entries of input_tensor_map_shapes
MaxOps == 2          \* operations of the inspected graph
MaxOpOutputs == 1    \* output tensors of one operation

\* ------------------------------------------------------------- input sets
\* Tensor names are strings, modelled as sequences of characters.
TensorNames ==
    { <<"a">>, <<"a", ":", "0">>, <<"a", ":", "1">>, <<"p", ":", "0">> }

Shapes == { "None", "(1, 2)" }

OpTypes == { "Placeholder", "Const", "Tanh" }

SeqsUpTo(S, n) == UNION { [1..k -> S] : k \in 0..n }

\* a Python dict in insertion order: a sequence of <<key, value>> pairs with
\* pairwise distinct keys
Dicts(n) ==
    { d \in SeqsUpTo(TensorNames \X Shapes, n) :
        \A i, j \in 1..Len(d) : d[i][1] = d[j][1] => i = j }

Graphs == SeqsUpTo([type : OpTypes, nout : 0..MaxOpOutputs], MaxOps)

VARIABLES
    prog,                     \* which script runs: "converter" or "inspector"
    output_tensor_names,      \* Converter argument (list of 'name:port')
    input_tensor_map_shapes,  \* Converter argument (dict 'name:port' -> shape)
    phase_train_tensor_name,  \* Converter argument
    meta_exists,              \* os.path.exists of the meta-graph file
    latest_ckpt,              \* tf.train.latest_checkpoint: TRUE iff not None
    graph_ops,                \* graph.get_operations() after the import
    pc,                       \* position in the script
    attempted,                \* the framework calls made so far, in order
    exc,                      \* the exception raised, if any
    outcome,                  \* "running", "returned" or "raised" (uncaught)
    stdout,                   \* the lines printed so far
    files,                    \* files written by this run
    freeze_args,              \* output node names handed to the freezer
    convert_args,             \* outputs/inputs handed to ct.convert
    restore_count             \* number of saver.restore calls

vars == << prog, output_tensor_names, input_tensor_map_shapes,
           phase_train_tensor_name, meta_exists, latest_ckpt, graph_ops, pc,
           attempted, exc, outcome, stdout, files, freeze_args, convert_args,
           restore_count >>

config == << prog, output_tensor_names, input_tensor_map_shapes,
             phase_train_tensor_name, meta_exists, latest_ckpt, graph_ops >>

NoExc == [kind |-> "none", at |-> "none"]
NoArgs == [called |-> FALSE, outputs |-> << >>, inputs |-> << >>]
NoFreeze == [called |-> FALSE, names |-> << >>]
NoFiles == [frozen_pb |-> "absent", mlmodel |-> "absent"]

Line(k, i, j, t) == [kind |-> k, op |-> i, out |-> j, ty |-> t]
Msg(k) == Line(k, 0, 0, "")

RunInit ==
    /\ attempted = << >>
    /\ exc = NoExc
    /\ outcome = "running"
    /\ stdout = << >>
    /\ files = NoFiles
    /\ freeze_args = NoFreeze
    /\ convert_args = NoArgs
    /\ restore_count = 0

ConverterInit ==
    /\ prog = "converter"
    /\ output_tensor_names \in SeqsUpTo(TensorNames, MaxOutputs)
    /\ input_tensor_map_shapes \in Dicts(MaxInputs)
    /\ phase_train_tensor_name \in TensorNames
    /\ latest_ckpt \in BOOLEAN
    /\ meta_exists = TRUE
    /\ graph_ops = << >>
    /\ pc = "c_import"

InspectorInit ==
    /\ prog = "inspector"
    /\ output_tensor_names = << >>
    /\ input_tensor_map_shapes = << >>
    /\ phase_train_tensor_name = << >>
    /\ latest_ckpt \in BOOLEAN
    /\ meta_exists \in BOOLEAN
    /\ graph_ops \in Graphs
    /\ pc = "i_main"

Init == RunInit /\ (ConverterInit \/ InspectorInit)

\* ----------------------------------------------------- pure computations
\* name.split(':')[0]: the characters before the first ':'
RECURSIVE StripPort(_)
StripPort(name) ==
    IF name = << >> THEN << >>
    ELSE IF Head(name) = ":" THEN << >>
    ELSE << Head(name) >> \o StripPort(Tail(name))

\* [name.split(':')[0] for name in output_tensor_names]
OutputNodeNamesForFreezing(names) ==
    [i \in 1..Len(names) |-> StripPort(names[i])]

\* outputs=[ct.TensorType(name=name) for name in output_tensor_names]
CoremlOutputs(names) ==
    [i \in 1..Len(names) |-> names[i]]

\* variant: the loop without the "continue" for the control tensor
RECURSIVE CoremlInputsUnfiltered(_, _)
CoremlInputsUnfiltered(items, phase) ==
    IF items = << >> THEN << >>
    ELSE << [name |-> StripPort(Head(items)[1]),
             shape |-> Head(items)[2]] >>
         \o CoremlInputsUnfiltered(Tail(items), phase)

\* the loop that builds coreml_inputs
RECURSIVE CoremlInputs(_, _)
CoremlInputs(items, phase) ==
    IF items = << >> THEN << >>
    ELSE IF Head(items)[1] = phase
         THEN CoremlInputs(Tail(items), phase)
         ELSE << [name |-> StripPort(Head(items)[1]),
                  shape |-> Head(items)[2]] >>
              \o CoremlInputs(Tail(items), phase)

\* ------------------------------------------------------------- Converter
\* variant: a blanket try/except around the body that reports and returns
ConvRaiseSwallowed(step, kind) ==
    /\ exc' = [kind |-> kind, at |-> step]
    /\ outcome' = "returned"
    /\ pc' = "done"

\* The function has no try/except: an exception leaves it unchanged and
\* nothing after the raising statement runs.
ConvRaise(step, kind) ==
    /\ exc' = [kind |-> kind, at |-> step]
    /\ outcome' = "raised"
    /\ pc' = "done"

\* import_meta_graph(..., input_map={phase_train_tensor_name: const})
ConvImportMetaGraph ==
    /\ prog = "converter" /\ pc = "c_import"
    /\ attempted' = Append(attempted, "import")
    /\ stdout' = Append(stdout, Msg("Loading meta graph"))
    /\ \/ pc' = "c_latest" /\ UNCHANGED << exc, outcome >>
       \/ ConvRaise("import", "framework")
    /\ UNCHANGED << config, files, freeze_args, convert_args, restore_count >>

\* variant: the "if not latest_ckpt" test is missing
ConvLatestCheckpointUnchecked ==
    /\ prog = "converter" /\ pc = "c_latest"
    /\ attempted' = Append(attempted, "latest_checkpoint")
    /\ pc' = "c_restore"
    /\ stdout' = Append(stdout, Msg("Restoring weights from"))
    /\ UNCHANGED << exc, outcome >>
    /\ UNCHANGED << config, files, freeze_args, convert_args, restore_count >>

\* latest_ckpt = tf.train.latest_checkpoint(...); if not latest_ckpt: raise
ConvLatestCheckpoint ==
    /\ prog = "converter" /\ pc = "c_latest"
    /\ attempted' = Append(attempted, "latest_checkpoint")
    /\ IF ~latest_ckpt
       THEN ConvRaise("latest_checkpoint", "ValueError: No checkpoint found")
            /\ UNCHANGED stdout
       ELSE /\ pc' = "c_restore"
            /\ stdout' = Append(stdout, Msg("Restoring weights from"))
            /\ UNCHANGED << exc, outcome >>
    /\ UNCHANGED << config, files, freeze_args, convert_args, restore_count >>

\* saver.restore(sess, latest_ckpt)
ConvRestore ==
    /\ prog = "converter" /\ pc = "c_restore"
    /\ attempted' = Append(attempted, "restore")
    /\ restore_count' = restore_count + 1
    /\ \/ /\ pc' = "c_freeze"
          /\ stdout' = Append(stdout, Msg("Weights restored successfully."))
          /\ UNCHANGED << exc, outcome >>
       \/ ConvRaise("restore", "framework") /\ UNCHANGED stdout
    /\ UNCHANGED << config, files, freeze_args, convert_args >>

\* convert_variables_to_constants(sess, graph_def, names without ':port')
ConvFreeze ==
    /\ prog = "converter" /\ pc = "c_freeze"
    /\ attempted' = Append(attempted, "freeze")
    /\ freeze_args' =
         [called |-> TRUE,
          names |-> OutputNodeNamesForFreezing(output_tensor_names)]
    /\ stdout' = Append(stdout, Msg("Freezing graph with output nodes"))
    /\ \/ pc' = "c_write" /\ UNCHANGED << exc, outcome >>
       \/ ConvRaise("freeze", "framework")
    /\ UNCHANGED << config, files, convert_args, restore_count >>

\* variant: the frozen graph is not persisted before the conversion
ConvWriteFrozenGraphSkipped ==
    /\ prog = "converter" /\ pc = "c_write"
    /\ attempted' = Append(attempted, "write_frozen")
    /\ \/ /\ stdout' = Append(stdout, Msg("Frozen graph saved to"))
          /\ pc' = "c_convert"
          /\ UNCHANGED << exc, outcome >>
       \/ /\ ConvRaise("write_frozen", "framework")
          /\ UNCHANGED stdout
    /\ UNCHANGED << config, files, freeze_args, convert_args, restore_count >>

\* with GFile(frozen_pb_path, "wb") as f: f.write(SerializeToString())
ConvWriteFrozenGraph ==
    /\ prog = "converter" /\ pc = "c_write"
    /\ attempted' = Append(attempted, "write_frozen")
    /\ \/ /\ files' = [files EXCEPT !.frozen_pb = "complete"]
          /\ stdout' = Append(stdout, Msg("Frozen graph saved to"))
          /\ pc' = "c_convert"
          /\ UNCHANGED << exc, outcome >>
       \/ /\ \E left \in {"absent", "partial"} :
                files' = [files EXCEPT !.frozen_pb = left]
          /\ ConvRaise("write_frozen", "framework")
          /\ UNCHANGED stdout
    /\ UNCHANGED << config, freeze_args, convert_args, restore_count >>

\* coreml_inputs loop, then mlmodel = ct.convert(frozen_graph_def, ...)
ConvConvert ==
    /\ prog = "converter" /\ pc = "c_convert"
    /\ attempted' = Append(attempted, "convert")
    /\ stdout' = Append(stdout, Msg("Converting to Core ML..."))
    /\ convert_args' =
         [called |-> TRUE,
          outputs |-> CoremlOutputs(output_tensor_names),
          inputs |-> CoremlInputs(input_tensor_map_shapes,
                                  phase_train_tensor_name)]
    /\ \/ pc' = "c_save" /\ UNCHANGED << exc, outcome >>
       \/ ConvRaise("convert", "framework")
    /\ UNCHANGED << config, files, freeze_args, restore_count >>

\* mlmodel.save(output_mlmodel_path)
ConvSave ==
    /\ prog = "converter" /\ pc = "c_save"
    /\ attempted' = Append(attempted, "save")
    /\ \/ /\ files' = [files EXCEPT !.mlmodel = "complete"]
          /\ stdout' = stdout \o << Msg("Core ML model saved to"),
                                    Msg("Conversion Complete!") >>
          /\ pc' = "c_summary"
          /\ UNCHANGED << exc, outcome >>
       \/ /\ \E left \in {"absent", "partial"} :
                files' = [files EXCEPT !.mlmodel = left]
          /\ ConvRaise("save", "framework")
          /\ UNCHANGED stdout
    /\ UNCHANGED << config, freeze_args, convert_args, restore_count >>

\* the two loops over mlmodel.get_spec().description
ConvSummary ==
    /\ prog = "converter" /\ pc = "c_summary"
    /\ attempted' = Append(attempted, "get_spec")
    /\ \/ /\ stdout' = stdout \o << Msg("Input details for Core ML model:"),
                                    Msg("Output details for Core ML model:") >>
          /\ pc' = "done"
          /\ outcome' = "returned"
          /\ UNCHANGED exc
       \/ ConvRaise("get_spec", "framework") /\ UNCHANGED stdout
    /\ UNCHANGED << config, files, freeze_args, convert_args, restore_count >>

\* ------------------------------------------------------------- Inspector
Range(n) == 1..n

\* the tensor lines printed for the outputs 1..n of operation i
TensorLines(k, i, n) == [j \in Range(n) |-> Line(k, i, j, "")]

\* variant: the operation line printed only under "if len(op.outputs) > 0"
RECURSIVE OperationLinesWithOutputs(_, _)
OperationLinesWithOutputs(ops, i) ==
    IF i > Len(ops) THEN << >>
    ELSE (IF ops[i].nout > 0
          THEN << Line("Operation Name", i, 0, ops[i].type),
                  Line("Output Tensors from Op", i, 0, "") >>
               \o TensorLines("Tensor Name", i, ops[i].nout)
          ELSE << >>)
         \o OperationLinesWithOutputs(ops, i + 1)

\* body of "for op in graph.get_operations()" for the operations from i on
RECURSIVE OperationLines(_, _)
OperationLines(ops, i) ==
    IF i > Len(ops) THEN << >>
    ELSE << Line("Operation Name", i, 0, ops[i].type) >>
         \o (IF ops[i].nout > 0
             THEN << Line("Output Tensors from Op", i, 0, "") >>
                  \o TensorLines("Tensor Name", i, ops[i].nout)
             ELSE << >>)
         \o OperationLines(ops, i + 1)

\* [op for op in graph.get_operations() if op.type == 'Placeholder'],
\* as the indices of the operations, in graph order, from i on
RECURSIVE Placeholders(_, _)
Placeholders(ops, i) ==
    IF i > Len(ops) THEN << >>
    ELSE (IF ops[i].type = "Placeholder" THEN << i >> ELSE << >>)
         \o Placeholders(ops, i + 1)

\* body of "for ph_op in placeholders"
RECURSIVE PlaceholderLines(_, _)
PlaceholderLines(ops, phs) ==
    IF phs = << >> THEN << >>
    ELSE << Line("Potential Input (Placeholder Op)", Head(phs), 0,
                 ops[Head(phs)].type) >>
         \o TensorLines("Placeholder Tensor Name", Head(phs),
                        ops[Head(phs)].nout)
         \o PlaceholderLines(ops, Tail(phs))

HintLines ==
    << Msg("--- Hints for finding I/O Tensors ---"),
       Msg("Look for tensor names related to:"),
       Msg("  Inputs: ..."),
       Msg("          Input shapes might match ..."),
       Msg("  Outputs: ..."),
       Msg("           Output shape could be ...") >>

\* variant: the call is not wrapped in try/except
InspRaiseUncaught(step, kind) ==
    /\ exc' = [kind |-> kind, at |-> step]
    /\ pc' = "done"
    /\ outcome' = "raised"

\* an exception inside inspect_checkpoint_model unwinds to the try of
\* __main__; nothing after the raising statement runs
InspRaise(step, kind) ==
    /\ exc' = [kind |-> kind, at |-> step]
    /\ pc' = "i_except"
    /\ UNCHANGED outcome

\* variant: the existence test is missing
InspMainUnchecked ==
    /\ prog = "inspector" /\ pc = "i_main"
    /\ attempted' = Append(attempted, "inspect_checkpoint_model")
    /\ pc' = "i_import"
    /\ UNCHANGED << stdout, outcome >>
    /\ UNCHANGED << config, exc, files, freeze_args, convert_args,
                    restore_count >>

\* __main__: if not os.path.exists(meta): print error
\*           else: try: inspect_checkpoint_model(...)
InspMain ==
    /\ prog = "inspector" /\ pc = "i_main"
    /\ IF ~meta_exists
       THEN /\ stdout' = Append(stdout, Msg("Error: Meta graph file not found"))
            /\ pc' = "done"
            /\ outcome' = "returned"
            /\ UNCHANGED attempted
       ELSE /\ attempted' = Append(attempted, "inspect_checkpoint_model")
            /\ pc' = "i_import"
            /\ UNCHANGED << stdout, outcome >>
    /\ UNCHANGED << config, exc, files, freeze_args, convert_args,
                    restore_count >>

\* saver = import_meta_graph(os.path.join(dir, meta), clear_devices=True)
InspImportMetaGraph ==
    /\ prog = "inspector" /\ pc = "i_import"
    /\ attempted' = Append(attempted, "import")
    /\ \/ pc' = "i_latest" /\ UNCHANGED << exc, outcome >>
       \/ InspRaise("import", "framework")
    /\ UNCHANGED << config, stdout, files, freeze_args, convert_args,
                    restore_count >>

\* variant: the else branch prints but does not return
InspLatestCheckpointNoReturn ==
    /\ prog = "inspector" /\ pc = "i_latest"
    /\ attempted' = Append(attempted, "latest_checkpoint")
    /\ IF latest_ckpt
       THEN /\ stdout' = Append(stdout, Msg("Restoring weights from"))
            /\ pc' = "i_restore"
       ELSE /\ stdout' = Append(stdout, Msg("Error: No checkpoint found"))
            /\ pc' = "i_operations"
    /\ UNCHANGED << config, exc, outcome, files, freeze_args, convert_args,
                    restore_count >>

\* latest_ckpt = latest_checkpoint(dir); if latest_ckpt: ... else: return
InspLatestCheckpoint ==
    /\ prog = "inspector" /\ pc = "i_latest"
    /\ attempted' = Append(attempted, "latest_checkpoint")
    /\ IF latest_ckpt
       THEN /\ stdout' = Append(stdout, Msg("Restoring weights from"))
            /\ pc' = "i_restore"
            /\ UNCHANGED outcome
       ELSE /\ stdout' = Append(stdout, Msg("Error: No checkpoint found"))
            /\ pc' = "done"
            /\ outcome' = "returned"
    /\ UNCHANGED << config, exc, files, freeze_args, convert_args,
                    restore_count >>

\* saver.restore(sess, latest_ckpt)
InspRestore ==
    /\ prog = "inspector" /\ pc = "i_restore"
    /\ attempted' = Append(attempted, "restore")
    /\ restore_count' = restore_count + 1
    /\ \/ /\ stdout' = Append(stdout, Msg("Weights restored successfully."))
          /\ pc' = "i_operations"
          /\ UNCHANGED << exc, outcome >>
       \/ InspRaise("restore", "framework") /\ UNCHANGED stdout
    /\ UNCHANGED << config, files, freeze_args, convert_args >>

\* the full listing
InspListOperations ==
    /\ prog = "inspector" /\ pc = "i_operations"
    /\ stdout' = stdout
                 \o << Msg("All operations and tensors in the graph:") >>
                 \o OperationLines(graph_ops, 1)
    /\ pc' = "i_placeholders"
    /\ UNCHANGED << config, attempted, exc, outcome, files, freeze_args,
                    convert_args, restore_count >>

\* the filtered listing
InspListPlaceholders ==
    /\ prog = "inspector" /\ pc = "i_placeholders"
    /\ LET placeholders == Placeholders(graph_ops, 1) IN
       stdout' = stdout
                 \o << Msg("--- Inputs (Placeholders) ---") >>
                 \o (IF placeholders # << >>
                     THEN PlaceholderLines(graph_ops, placeholders)
                     ELSE << Msg("No explicit Placeholder ops found.") >>)
    /\ pc' = "i_hints"
    /\ UNCHANGED << config, attempted, exc, outcome, files, freeze_args,
                    convert_args, restore_count >>

\* the static hints; inspect_checkpoint_model returns, the try ends
InspHints ==
    /\ prog = "inspector" /\ pc = "i_hints"
    /\ stdout' = stdout \o HintLines
    /\ pc' = "done"
    /\ outcome' = "returned"
    /\ UNCHANGED << config, attempted, exc, files, freeze_args,
                    convert_args, restore_count >>

\* except Exception as e: print(...); traceback.print_exc()
InspExcept ==
    /\ prog = "inspector" /\ pc = "i_except"
    /\ stdout' = stdout
                 \o << Msg("An error occurred during model inspection"),
                       Msg("Traceback") >>
    /\ pc' = "done"
    /\ outcome' = "returned"
    /\ UNCHANGED << config, attempted, exc, files, freeze_args,
                    convert_args, restore_count >>

\* ---------------------------------------------------------- specification
Next ==
    \/ ConvImportMetaGraph
    \/ ConvLatestCheckpoint
    \/ ConvRestore
    \/ ConvFreeze
    \/ ConvWriteFrozenGraph
    \/ ConvConvert
    \/ ConvSave
    \/ ConvSummary
    \/ InspMain
    \/ InspImportMetaGraph
    \/ InspLatestCheckpoint
    \/ InspRestore
    \/ InspListOperations
    \/ InspListPlaceholders
    \/ InspHints
    \/ InspExcept

Spec == Init /\ [][Next]_vars

TypeOK ==
    /\ prog \in {"converter", "inspector"}
    /\ outcome \in {"running", "returned", "raised"}
    /\ restore_count \in 0..1
    /\ files.frozen_pb \in {"absent", "partial", "complete"}
    /\ files.mlmodel \in {"absent", "partial", "complete"}

\* ------------------------------------------------------------ properties
Attempted(step) == \E i \in 1..Len(attempted) : attempted[i] = step

LastAttempted == attempted[Len(attempted)]

Printed(k) == \E i \in 1..Len(stdout) : stdout[i].kind = k

\* s is name cut at its first ':' (all of name when it has none)
IsPortStripped(name, s) ==
    /\ Len(s) <= Len(name)
    /\ \A i \in 1..Len(s) : s[i] = name[i] /\ s[i] # ":"
    /\ Len(s) < Len(name) => name[Len(s) + 1] = ":"

LaterConverterSteps == {"restore", "freeze", "write_frozen", "convert", "save"}

NoLaterStepAttempted ==
    /\ \A step \in LaterConverterSteps : ~Attempted(step)
    /\ restore_count = 0
    /\ ~freeze_args.called
    /\ ~convert_args.called
    /\ files = NoFiles

ListingKinds ==
    { "All operations and tensors in the graph:", "Operation Name",
      "Output Tensors from Op", "Tensor Name",
      "--- Inputs (Placeholders) ---", "Potential Input (Placeholder Op)",
      "Placeholder Tensor Name", "No explicit Placeholder ops found.",
      "--- Hints for finding I/O Tensors ---" }

NoListingPrinted == \A k \in ListingKinds : ~Printed(k)

\* C1 as stated: every Converter run on a directory without a checkpoint
\* ends with the ValueError 'No checkpoint found' and attempts no later step.
C1_AlwaysValueError ==
    (prog = "converter" /\ ~latest_ckpt /\ pc = "done")
        => /\ outcome = "raised"
           /\ exc = [kind |-> "ValueError: No checkpoint found",
                     at |-> "latest_checkpoint"]
           /\ NoLaterStepAttempted

\* C1 amended: a Converter run on a directory without a checkpoint always
\* fails and attempts no later step (restore, freeze, write of
\* frozen_model.pb, ct.convert, save); the failure is the ValueError
\* 'No checkpoint found' whenever the meta-graph import succeeded, and the
\* import's own error otherwise.
C1_NoCheckpointHalts ==
    (prog = "converter" /\ ~latest_ckpt)
        => /\ NoLaterStepAttempted
           /\ pc = "done" =>
                /\ outcome = "raised"
                /\ IF Attempted("latest_checkpoint")
                   THEN exc = [kind |-> "ValueError: No checkpoint found",
                               at |-> "latest_checkpoint"]
                   ELSE exc = [kind |-> "framework", at |-> "import"]

C1_Witness ==
    /\ prog = "converter" /\ ~latest_ckpt /\ pc = "done"
    /\ exc.kind = "ValueError: No checkpoint found"

\* C2: when the meta-graph file does not exist the Inspector prints the
\* 'Meta graph file not found' error and ends normally; it never calls
\* inspect_checkpoint_model, imports nothing and restores nothing.
C2_MissingMetaReported ==
    (prog = "inspector" /\ ~meta_exists)
        => /\ attempted = << >>
           /\ restore_count = 0
           /\ exc = NoExc
           /\ outcome # "raised"
           /\ pc = "done" =>
                /\ outcome = "returned"
                /\ stdout = << Msg("Error: Meta graph file not found") >>

C2_Witness ==
    /\ prog = "inspector" /\ ~meta_exists /\ pc = "done"
    /\ Printed("Error: Meta graph file not found")

\* C3: the output names handed to ct.convert are the configured
\* output_tensor_names with the ':port' suffix stripped, same order and count.
C3_ConvertOutputsStripped ==
    convert_args.called
        => /\ Len(convert_args.outputs) = Len(output_tensor_names)
           /\ \A i \in 1..Len(output_tensor_names) :
                IsPortStripped(output_tensor_names[i], convert_args.outputs[i])

\* C4: the inputs handed to ct.convert are the entries of
\* input_tensor_map_shapes other than the one keyed by the control tensor
\* name, in order, each as (key with ':port' stripped, configured shape).
C4_InputsExcludeControlTensor ==
    convert_args.called
        => LET m == input_tensor_map_shapes
               Skipped(i) == Cardinality({ j \in 1..i :
                                 m[j][1] = phase_train_tensor_name })
               Kept == { i \in 1..Len(m) : m[i][1] # phase_train_tensor_name }
           IN /\ Len(convert_args.inputs) = Cardinality(Kept)
              /\ \A i \in Kept :
                   /\ IsPortStripped(m[i][1],
                                     convert_args.inputs[i - Skipped(i)].name)
                   /\ convert_args.inputs[i - Skipped(i)].shape = m[i][2]

C4_Witness ==
    /\ convert_args.called
    /\ Len(input_tensor_map_shapes) = 2
    /\ input_tensor_map_shapes[1][1] = phase_train_tensor_name
    /\ Len(convert_args.inputs) = 1

\* C5: after a successful restore the full listing has exactly one
\* 'Operation Name' line per operation of the graph, and every Placeholder
\* operation is in the full listing and in the placeholder listing.
C5_ListingComplete ==
    (prog = "inspector" /\ pc = "done" /\ Printed("Weights restored successfully."))
        => LET OpLines == { i \in 1..Len(stdout) :
                               stdout[i].kind = "Operation Name" }
               PhLines == { i \in 1..Len(stdout) :
                   stdout[i].kind = "Potential Input (Placeholder Op)" }
           IN /\ Cardinality(OpLines) = Len(graph_ops)
              /\ \A n \in 1..Len(graph_ops) :
                   /\ \E i \in OpLines : /\ stdout[i].op = n
                                         /\ stdout[i].ty = graph_ops[n].type
                   /\ graph_ops[n].type = "Placeholder"
                        => \E i \in PhLines : stdout[i].op = n

C5_Witness ==
    /\ prog = "inspector" /\ pc = "done"
    /\ Printed("Weights restored successfully.")
    /\ Len(graph_ops) = 2
    /\ graph_ops[1].type = "Const" /\ graph_ops[1].nout = 0
    /\ graph_ops[2].type = "Placeholder"

\* C6: a failure of the import or of the restore in the Inspector is caught
\* by __main__: message and trace are printed, the program ends normally,
\* and no listing is printed.
C6_InspectorFailureCaught ==
    (prog = "inspector" /\ exc # NoExc)
        => /\ exc.at \in {"import", "restore"}
           /\ LastAttempted = exc.at
           /\ outcome # "raised"
           /\ NoListingPrinted
           /\ pc \in {"i_except", "done"}
           /\ pc = "done" =>
                /\ outcome = "returned"
                /\ Len(stdout) >= 2
                /\ stdout[Len(stdout) - 1] =
                     Msg("An error occurred during model inspection")
                /\ stdout[Len(stdout)] = Msg("Traceback")

C6_Witness ==
    /\ prog = "inspector" /\ pc = "done"
    /\ exc = [kind |-> "framework", at |-> "restore"]
    /\ Printed("Traceback")

\* C7: a framework error in the Converter is not caught: the run ends with
\* that error raised, and the failing call is the last one made.
C7_ConverterErrorPropagates ==
    (prog = "converter" /\ exc.kind = "framework")
        => /\ outcome = "raised"
           /\ pc = "done"
           /\ LastAttempted = exc.at
           /\ exc.at = "import" => NoLaterStepAttempted
           /\ exc.at \in {"import", "restore", "freeze"} => files = NoFiles
           /\ exc.at # "get_spec" => files.mlmodel # "complete"
           /\ exc.at \in {"import", "restore", "freeze", "write_frozen"}
                => ~convert_args.called

C7_Witness ==
    /\ prog = "converter" /\ outcome = "raised"
    /\ exc = [kind |-> "framework", at |-> "freeze"]

\* C9 as stated: a Converter run that ends in a failure has written neither
\* frozen_model.pb nor the model artifact.
C9_FailureWritesNothing ==
    (prog = "converter" /\ outcome = "raised") => files = NoFiles

\* C9 amended: a Converter run that fails before the frozen graph is written
\* (import, checkpoint lookup, restore, freezing) has written no file; a run
\* that fails in the Core ML conversion has written frozen_model.pb and not
\* the model artifact.
C9_FailureBeforeWriteLeavesNothing ==
    (prog = "converter" /\ outcome = "raised")
        => /\ exc.at \in {"import", "latest_checkpoint", "restore", "freeze"}
                => files = NoFiles
           /\ exc.at = "convert"
                => files = [frozen_pb |-> "complete", mlmodel |-> "absent"]

C9_Witness ==
    /\ prog = "converter" /\ outcome = "raised" /\ exc.at = "convert"
    /\ files.frozen_pb = "complete"

\* C10: when the meta graph loads and there is no checkpoint,
\* inspect_checkpoint_model prints 'No checkpoint found' and returns without
\* restoring and without any listing; no run restores more than once.
C10_NoCheckpointStops ==
    /\ restore_count <= 1
    /\ (prog = "inspector" /\ ~latest_ckpt /\ Attempted("latest_checkpoint"))
        => /\ pc = "done"
           /\ outcome = "returned"
           /\ exc = NoExc
           /\ restore_count = 0
           /\ ~Attempted("restore")
           /\ NoListingPrinted
           /\ stdout = << Msg("Error: No checkpoint found") >>

C10_Witness ==
    /\ prog = "inspector" /\ ~latest_ckpt /\ pc = "done"
    /\ Printed("Error: No checkpoint found")

====
